---- MODULE Spec2Model ----
(***************************************************************************)
(* Model of AURNScraper (src/Airquality_scraper.py): the download loop of  *)
(* download_monitoring_data, the distance filter find_sites_by_distance,   *)
(* the catalog build all_sites_info and the exporter pkl_to_json.          *)
(*                                                                         *)
(* Text is a tuple of one-character strings, so that split(), str() and    *)
(* int() are computed rather than assumed.  An optional value (Python's    *)
(* None, an unbound local, an absent file) is a tuple of length 0 or 1.    *)
(***************************************************************************)
EXTENDS Integers, Sequences, FiniteSets, TLC

VARIABLES
    pc,                    \* where the single-threaded script is
    files,                 \* the names of the files in monitoring_files
    pending,               \* file names the browser is still downloading
    calls,                 \* invocations of download_monitoring_data so far
    dataframe,             \* argument of download_monitoring_data
    year,                  \* argument of download_monitoring_data
    row_no,                \* rows of dataframe.iterrows() already taken
    all_years,             \* the <a> elements of the current site's table
    loop_no,               \* iterations of the inner loop already done
    downloads_before_loop, \* line 308
    download_report,       \* line 294
    clicked,               \* line 317: the row of each link clicked in this call
    skipped,               \* line 315: the rows that printed "already exists"
    failed_rows,           \* line 321: the row of each name appended
    pkl,                   \* All_Sites_Outputs.pkl: <<>> or <<dataframe>>
    prompt,                \* what inquirer.prompt did in the last all_sites_info
    api_df,                \* the feed rows read by _dataframe_API
    i,                     \* loop index of all_sites_info
    site_info_dict,        \* line 185
    site_info_df,          \* line 215: <<>> while unbound
    extracted,             \* the feed rows whose _retrieve_site_info returned
    result,                \* the last catalog operation and how it ended
    json_dir,              \* json_files: <<>> or <<the set of files in it>>
    image_files,           \* image_files: file name -> what the file holds
    all_photos,            \* line 143: the src of each carousel photo
    photo_no,              \* photos of all_photos already taken by the loop
    filenumber,            \* line 144
    fetched,               \* line 151: the file name of each urlretrieve
    images_before,         \* image_files as the last _retrieve_images found it
    img_report             \* how the last _retrieve_images ended

dlvars == <<files, pending, calls, dataframe, year, row_no, all_years, loop_no,
            downloads_before_loop, download_report, clicked, skipped,
            failed_rows>>

catvars == <<pkl, prompt, api_df, i, site_info_dict, site_info_df, extracted,
             result, json_dir>>

imgvars == <<image_files, all_photos, photo_no, filenumber, fetched,
             images_before, img_report>>

vars == <<pc, dlvars, catvars, imgvars>>

\* ------------------------------------------------------------------ bounds
MaxRows == 2
MaxLinks == 2
MaxCalls == 2
MaxFeed == 2
MaxPhotos == 3

\* -------------------------------------------------------------------- text
RECURSIVE IndexOf(_, _, _)
\* str.find: the first position >= from at which ch occurs in s, 0 if none
IndexOf(s, ch, from) ==
    IF from > Len(s) THEN 0
    ELSE IF s[from] = ch THEN from
    ELSE IndexOf(s, ch, from + 1)

RECURSIVE LastSegment(_, _)
\* s.split(ch)[len(s.split(ch)) - 1]: the text after the last ch
LastSegment(s, ch) ==
    LET k == IndexOf(s, ch, 1)
    IN  IF k = 0 THEN s ELSE LastSegment(SubSeq(s, k + 1, Len(s)), ch)

\* s.split(ch)[0]: the text before the first ch
FirstSegment(s, ch) ==
    LET k == IndexOf(s, ch, 1)
    IN  IF k = 0 THEN s ELSE SubSeq(s, 1, k - 1)

Digit(d) == CASE d = 0 -> "0" [] d = 1 -> "1" [] d = 2 -> "2" [] d = 3 -> "3"
              [] d = 4 -> "4" [] d = 5 -> "5" [] d = 6 -> "6" [] d = 7 -> "7"
              [] d = 8 -> "8" [] d = 9 -> "9"

RECURSIVE Str(_)
\* str(n) of an int
Str(n) ==
    IF n < 0 THEN <<"-">> \o Str(-n)
    ELSE IF n < 10 THEN <<Digit(n)>>
    ELSE Str(n \div 10) \o <<Digit(n % 10)>>

\* -------------------------------------------------- download_monitoring_data
\* The rows handed to download_monitoring_data: 'Name' and 'Web Link' columns
\* of the k-th site of a catalog, whose names are unique.
Row(k) == [Name |-> <<"S", k>>, WebLink |-> <<"u", "=", k>>]

RECURSIVE SeqsUpTo(_, _)
SeqsUpTo(S, n) ==
    IF n = 0 THEN {<<>>}
    ELSE LET shorter == SeqsUpTo(S, n - 1)
         IN  shorter \cup {Append(s, x) : s \in {t \in shorter : Len(t) = n - 1}, x \in S}

Dataframes == {[k \in 1..n |-> Row(k)] : n \in 0..MaxRows}

Years == {2019, 2020}

\* text and href of the <a> elements a site's table may hold
Anchors == { [text |-> <<"2", "0", "1", "9">>, href |-> <<"d", "/", "a", "?", "v">>],
             [text |-> <<"2", "0", "1", "9">>, href |-> <<"e", "/", "b">>],
             [text |-> <<"2", "0", "2", "0">>, href |-> <<"d", "/", "a">>] }

YearLinkLists == SeqsUpTo(Anchors, MaxLinks)

\* lines 311-313
TargetName(linkname) == FirstSegment(LastSegment(linkname, "/"), "?")

\* line 314: os.path.exists(f'{self.new_dir}/{name}'); __init__ (lines 52-54)
\* made the directory, so the empty name names an existing path
PathExists(fs, name) == name = <<>> \/ name \in fs

\* line 310
YearMatches(AURN_year, y) == AURN_year.text = Str(y)

ShouldClick_IgnoresExisting(fs, AURN_year, y) == YearMatches(AURN_year, y)

\* line 310 and 314: whether the link is clicked
ShouldClick(fs, AURN_year, y) ==
    YearMatches(AURN_year, y) /\ ~PathExists(fs, TargetName(AURN_year.href))

CountAfter_AlwaysCounts(count, click) == count + 1

\* line 318
CountAfter(count, click) == IF click THEN count + 1 ELSE count

IsUnsuccessful_IgnoresCount(last, before, count) == last

\* lines 319-320
IsUnsuccessful(last, before, count) == last /\ before = count

NewReport == [Count |-> 0, List |-> <<>>]

FileNames == {TargetName(a.href) : a \in Anchors} \ {<<>>}

\* lines 293-294
StartDownload ==
    /\ pc \in {"idle", "returned", "raised"}
    /\ calls < MaxCalls
    /\ \E df \in Dataframes, y \in Years :
          /\ dataframe' = df
          /\ year' = y
    /\ calls' = calls + 1
    /\ download_report' = NewReport
    /\ row_no' = 0
    /\ all_years' = <<>>
    /\ loop_no' = 0
    /\ downloads_before_loop' = 0
    /\ clicked' = <<>>
    /\ skipped' = {}
    /\ failed_rows' = <<>>
    /\ pc' = "rows"
    /\ UNCHANGED <<files, pending, catvars, imgvars>>

\* lines 295-308: the next row's page is opened and its links are found
BeginRow ==
    /\ pc = "rows"
    /\ row_no < Len(dataframe)
    /\ \E links \in YearLinkLists :
          /\ all_years' = links
          /\ pc' = IF links = <<>> THEN "rows" ELSE "links"
    /\ row_no' = row_no + 1
    /\ loop_no' = 0
    /\ downloads_before_loop' = download_report.Count
    /\ UNCHANGED <<files, pending, calls, dataframe, year, download_report,
                   clicked, skipped, failed_rows, catvars, imgvars>>

\* lines 296-306: a wait times out or an element is missing; nothing catches it
PageFailure ==
    /\ pc = "rows"
    /\ row_no < Len(dataframe)
    /\ pc' = "raised"
    /\ UNCHANGED <<dlvars, catvars, imgvars>>

\* lines 309-321: one iteration of the inner loop.  After the last iteration
\* all_years and loop_no are dead until line 307 sets them again.
ScanLink ==
    /\ pc = "links"
    /\ loop_no < Len(all_years)
    /\ LET AURN_year == all_years[loop_no + 1]
           click     == ShouldClick(files, AURN_year, year)
           count     == CountAfter(download_report.Count, click)
           last      == (loop_no + 1) = Len(all_years)
           fail      == IsUnsuccessful(last, downloads_before_loop, count)
       IN  /\ skipped' = IF YearMatches(AURN_year, year) /\ ~click
                         THEN skipped \cup {row_no}
                         ELSE skipped
           /\ clicked' = IF click THEN Append(clicked, row_no) ELSE clicked
           /\ pending' = IF click
                         THEN pending \cup {TargetName(AURN_year.href)}
                         ELSE pending
           /\ download_report' =
                 [Count |-> count,
                  List  |-> IF fail
                            THEN Append(download_report.List, dataframe[row_no].Name)
                            ELSE download_report.List]
           /\ failed_rows' = IF fail THEN Append(failed_rows, row_no) ELSE failed_rows
           /\ loop_no' = IF last THEN 0 ELSE loop_no + 1
           /\ all_years' = IF last THEN <<>> ELSE all_years
           /\ pc' = IF last THEN "rows" ELSE "links"
    /\ UNCHANGED <<files, calls, dataframe, year, row_no,
                   downloads_before_loop, catvars, imgvars>>

\* lines 322-323: download_report is what the call returns
ReturnReport ==
    /\ pc = "rows"
    /\ row_no = Len(dataframe)
    /\ pc' = "returned"
    /\ UNCHANGED <<dlvars, catvars, imgvars>>

\* The browser finishes a download started at line 317 into the directory of
\* line 56; a second download of a name lands beside the first, which stays.
DownloadComplete ==
    /\ \E name \in pending :
          /\ pending' = pending \ {name}
          /\ files' = files \cup {name}
    /\ UNCHANGED <<pc, calls, dataframe, year, row_no, all_years, loop_no,
                   downloads_before_loop, download_report, clicked,
                   skipped, failed_rows, catvars, imgvars>>

InitDownload ==
    /\ pc = "idle"
    /\ files \in SUBSET FileNames
    /\ pending = {}
    /\ calls = 0
    /\ dataframe = <<>>
    /\ year = 2019
    /\ row_no = 0
    /\ all_years = <<>>
    /\ loop_no = 0
    /\ downloads_before_loop = 0
    /\ download_report = NewReport
    /\ clicked = <<>>
    /\ skipped = {}
    /\ failed_rows = <<>>

NextDownload ==
    \/ StartDownload
    \/ BeginRow
    \/ PageFailure
    \/ ScanLink
    \/ ReturnReport
    \/ DownloadComplete

\* ------------------------------------------ download_monitoring_data: claims
Range(s) == {s[k] : k \in 1..Len(s)}

\* the rows whose inner loop is over
FinishedRows == IF pc = "links" THEN 1..(row_no - 1) ELSE 1..row_no

\* the file each anchor's href names: its final path segment without '?...'
ExpectedFile(href) ==
    CASE href = <<"d", "/", "a", "?", "v">> -> <<"a">>
      [] href = <<"e", "/", "b">>           -> <<"b">>
      [] href = <<"d", "/", "a">>           -> <<"a">>

\* C1: a site whose matching entries all found their target file on disk is
\* neutral: it adds nothing to the count and its name is not appended to
\* 'Unsuccessful Download list'.
C1_ExistingFileIsNeutral ==
    \A r \in skipped \ Range(clicked) : r \notin Range(failed_rows)

\* C2 as stated: the returned count is the number of sites (rows) for which
\* a download was started in this invocation, at most 1 per site.
C2_CountIsSitesDownloaded ==
    pc = "returned" => download_report.Count = Cardinality(Range(clicked))

\* C2 as amended: at every point of an invocation the count is the number of
\* links clicked so far in this invocation.
C2_CountIsLinksClicked ==
    download_report.Count = Len(clicked)

C2_Witness ==
    /\ pc = "returned"
    /\ download_report.Count = 2
    /\ clicked = <<1, 1>>

\* C3: every site whose year-link list has no entry labelled str(year), the
\* empty list included, has its name appended to 'Unsuccessful Download list'.
C3_NoMatchIsFailure ==
    \A r \in FinishedRows :
        (r \notin skipped /\ r \notin Range(clicked)) => r \in Range(failed_rows)

\* C4: 'Unsuccessful Download list' holds the names of the appended rows only,
\* no row that incremented the count is appended, and no row is appended twice.
C4_FailuresOnlyWithoutDownload ==
    /\ \A r \in Range(failed_rows) : r \notin Range(clicked)
    /\ \A j, k \in 1..Len(failed_rows) : failed_rows[j] = failed_rows[k] => j = k
    /\ Len(download_report.List) = Len(failed_rows)
    /\ \A k \in 1..Len(failed_rows) :
          download_report.List[k] = dataframe[failed_rows[k]].Name

C4_Witness ==
    /\ pc = "returned"
    /\ Len(dataframe) = 2
    /\ clicked = <<1>>
    /\ failed_rows = <<2>>

\* C5: a download is started only by a click, never for a file that exists
\* in monitoring_files, and a file that exists stays.
C5_NoFetchOfExistingFile ==
    [][ /\ Len(clicked') = Len(clicked) + 1 =>
              /\ ExpectedFile(all_years[loop_no + 1].href) \notin files
              /\ ExpectedFile(all_years[loop_no + 1].href) \in pending'
        /\ \A n \in pending' \ pending : n \notin files /\ Len(clicked') = Len(clicked) + 1
        /\ files \subseteq files'
      ]_vars

\* the second call finds the file the first call fetched and clicks nothing
C5_Witness ==
    /\ calls = 2
    /\ pc = "returned"
    /\ year = 2019
    /\ files = {<<"a">>}
    /\ pending = {}
    /\ skipped # {}
    /\ clicked = <<>>

\* ------------------------------------------------------ _retrieve_site_info
\* The k-th feed row of _dataframe_API: 'site_name' and 'site info link'.
FeedRow(k) == [site_name |-> <<"S", k>>, link |-> <<"i", "d", "=", k>>]

Feeds == {[k \in 1..n |-> FeedRow(k)] : n \in 0..MaxFeed}

\* What follows 'Easting/Northing: ' on a detail page.
CoordTexts == { <<"3", ",", " ", "4">>,
                <<"0", ",", " ", "0">>,
                <<"N", "A">>,
                <<"3">> }

\* The detail page of a feed row: absent or broken (the wait of line 114
\* times out, or a tag is missing and a local of line 131 is unbound), or
\* the three paragraphs of lines 118-128.
Pages(row) ==
    {[ok |-> FALSE]} \cup
    {[ok |-> TRUE, EnvironmentType |-> <<"env", row.site_name>>,
      EastingNorthing |-> t, SiteAddress |-> <<"addr", row.site_name>>]
       : t \in CoordTexts}

RECURSIVE FindCommaSpace(_, _)
\* the first position >= from of ', ' in s, 0 if none
FindCommaSpace(s, from) ==
    IF from + 1 > Len(s) THEN 0
    ELSE IF s[from] = "," /\ s[from + 1] = " " THEN from
    ELSE FindCommaSpace(s, from + 1)

RECURSIVE SplitCommaSpace(_)
\* s.split(', ')
SplitCommaSpace(s) ==
    LET k == FindCommaSpace(s, 1)
    IN  IF k = 0 THEN <<s>>
        ELSE <<SubSeq(s, 1, k - 1)>> \o SplitCommaSpace(SubSeq(s, k + 2, Len(s)))

DigitValue(c) == CASE c = "0" -> 0 [] c = "1" -> 1 [] c = "2" -> 2 [] c = "3" -> 3
                   [] c = "4" -> 4 [] c = "5" -> 5 [] c = "6" -> 6 [] c = "7" -> 7
                   [] c = "8" -> 8 [] c = "9" -> 9

\* whether int(t) returns: the texts here hold no sign, blank or underscore
IsInt(t) == Len(t) > 0 /\ \A k \in 1..Len(t) :
               t[k] \in {"0", "1", "2", "3", "4", "5", "6", "7", "8", "9"}

RECURSIVE ToInt(_)
ToInt(t) ==
    IF Len(t) = 1 THEN DigitValue(t[1])
    ELSE 10 * ToInt(SubSeq(t, 1, Len(t) - 1)) + DigitValue(t[Len(t)])

\* lines 121-126: [X_co, Y_co], or the raw text when int() or [1] raises
SiteXY(text) ==
    LET parts == SplitCommaSpace(text)
    IN  IF IsInt(parts[1]) /\ Len(parts) >= 2 /\ IsInt(parts[2])
        THEN [kind |-> "xy", x |-> ToInt(parts[1]), y |-> ToInt(parts[2])]
        ELSE [kind |-> "text", text |-> text]

\* line 131
RetrieveSiteInfo(page, this_site) ==
    <<page.EnvironmentType, SiteXY(page.EastingNorthing), page.SiteAddress, this_site>>

\* lines 146 and 387-388: f"{site_name}{filenumber}"
ImageName(site_name, val) == site_name \o Str(val)

RECURSIVE ImagesFrom(_, _, _)
\* lines 386-391: the names found from val on, up to the first gap
ImagesFrom(dir, site_name, val) ==
    IF ImageName(site_name, val) \in DOMAIN dir
    THEN <<ImageName(site_name, val)>> \o ImagesFrom(dir, site_name, val + 1)
    ELSE <<>>

\* lines 376-394 on a directory listing
ImageNameList(dir, site_name) ==
    IF ImagesFrom(dir, site_name, 0) = <<>> THEN <<<<"No Downloaded Images">>>>
    ELSE ImagesFrom(dir, site_name, 0)

\* lines 376-394
CheckForImageDownload(site_name) == ImageNameList(image_files, site_name)

\* ----------------------------------------------------------- all_sites_info
\* line 185
EmptyDict == [UUID |-> <<>>, Name |-> <<>>, EnvironmentType |-> <<>>,
              Coordinates |-> <<>>, Address |-> <<>>, WebLink |-> <<>>,
              ImageNames |-> <<>>]

Max(a, b) == IF a >= b THEN a ELSE b

\* the cell of row k of a column built from a list: None past its end
Cell(list, k) == IF k <= Len(list) THEN <<list[k]>> ELSE <<>>

\* lines 215-216: DataFrame.from_dict(orient='index').transpose() has as
\* many rows as the longest list and pads the shorter lists with None
ToDataFrame(d) ==
    LET n == Max(Len(d.UUID), Max(Len(d.Name), Max(Len(d.EnvironmentType),
             Max(Len(d.Coordinates), Max(Len(d.Address),
             Max(Len(d.WebLink), Len(d.ImageNames)))))))
    IN  [k \in 1..n |->
            [UUID |-> Cell(d.UUID, k), Name |-> Cell(d.Name, k),
             EnvironmentType |-> Cell(d.EnvironmentType, k),
             Coordinates |-> Cell(d.Coordinates, k),
             Address |-> Cell(d.Address, k), WebLink |-> Cell(d.WebLink, k),
             ImageNames |-> Cell(d.ImageNames, k)]]

\* lines 190-194: what the try block appends before the page is opened;
\* uuid4() is a value no other row has, here the row's position
AppendIdentity(d, row) ==
    [d EXCEPT !.UUID = Append(@, Len(@) + 1), !.Name = Append(@, row.site_name)]

\* lines 197-201
AppendSiteInfo(d, row, site_info) ==
    [d EXCEPT !.EnvironmentType = Append(@, site_info[1]),
              !.Coordinates = Append(@, site_info[2]),
              !.Address = Append(@, site_info[3]),
              !.WebLink = Append(@, site_info[4]),
              !.ImageNames = Append(@, CheckForImageDownload(row.site_name))]

\* lines 189-212: the try block of one record and its except clauses
TryRecord(d, row, page) ==
    IF page.ok
    THEN AppendSiteInfo(AppendIdentity(d, row), row,
                        RetrieveSiteInfo(page, row.link))
    ELSE AppendIdentity(d, row)

Proceeds_IgnoresAnswer(exists, answer) == TRUE

\* lines 173-183: whether the method goes on to crawl.  With no file, ans is
\* unbound at line 179; with no answer, ans is None; both raise inside the
\* try and the except clause passes.
Proceeds(exists, answer) ==
    IF exists THEN answer # "declined" ELSE TRUE

Answers(exists) ==
    IF exists THEN {"confirmed", "declined", "raised", "no_answer"}
    ELSE {"not_asked"}

Outcome(op, how, value, args) ==
    [op |-> op, outcome |-> how, value |-> value, args |-> args]

\* lines 173-186
StartAllSites ==
    /\ pc = "idle"
    /\ \E answer \in Answers(pkl # <<>>), cookies \in BOOLEAN, feed \in Feeds :
          /\ prompt' = answer
          /\ IF ~Proceeds(pkl # <<>>, answer)
             THEN /\ result' = Outcome("all_sites_info", "returned", <<>>, <<>>)
                  /\ UNCHANGED <<pc, api_df, i, site_info_dict, site_info_df,
                                 extracted>>
             ELSE IF ~cookies
             THEN /\ result' = Outcome("all_sites_info", "raised", <<>>, <<>>)
                  /\ UNCHANGED <<pc, api_df, i, site_info_dict, site_info_df,
                                 extracted>>
             ELSE /\ result' = Outcome("all_sites_info", "running", <<>>, <<>>)
                  /\ pc' = "crawl"
                  /\ api_df' = feed
                  /\ i' = 0
                  /\ site_info_dict' = EmptyDict
                  /\ site_info_df' = <<>>
                  /\ extracted' = <<>>
    /\ UNCHANGED <<pkl, json_dir, dlvars, imgvars>>

\* lines 188-216: one iteration of the loop
CrawlRecord ==
    /\ pc = "crawl"
    /\ i < Len(api_df)
    /\ \E page \in Pages(api_df[i + 1]) :
          /\ site_info_dict' = TryRecord(site_info_dict, api_df[i + 1], page)
          /\ extracted' = IF page.ok THEN Append(extracted, i + 1) ELSE extracted
    /\ site_info_df' = <<ToDataFrame(site_info_dict')>>
    /\ i' = i + 1
    /\ UNCHANGED <<pc, pkl, prompt, api_df, result, json_dir, dlvars, imgvars>>

\* lines 217-220: with an empty feed site_info_df is unbound and line 219
\* raises; the locals i, site_info_dict and site_info_df end with the call
FinishCrawl ==
    /\ pc = "crawl"
    /\ i = Len(api_df)
    /\ IF site_info_df = <<>>
       THEN /\ result' = Outcome("all_sites_info", "raised", <<>>, <<>>)
            /\ pkl' = pkl
       ELSE /\ result' = Outcome("all_sites_info", "saved", site_info_df, <<>>)
            /\ pkl' = site_info_df
    /\ pc' = "idle"
    /\ i' = 0
    /\ site_info_dict' = EmptyDict
    /\ site_info_df' = <<>>
    /\ UNCHANGED <<prompt, api_df, extracted, json_dir, dlvars, imgvars>>

\* --------------------------------------------------- find_sites_by_distance
NaN == [kind |-> "nan"]

\* lines 259-260: Series.str[k] of one cell: the element of a list, the
\* character of a text, NaN for None or past the end of a text
StrGet(cell, k) ==
    IF cell = <<>> THEN NaN
    ELSE LET c == cell[1]
         IN  IF c.kind = "xy"
             THEN [kind |-> "int", n |-> IF k = 0 THEN c.x ELSE c.y]
             ELSE IF k + 1 <= Len(c.text)
                  THEN [kind |-> "str", ch |-> c.text[k + 1]]
                  ELSE NaN

\* the float s ** 0.5 of an int s >= 0: its integer part and whether it is exact
Sqrt(s) ==
    LET r == CHOOSE q \in 0..s : q * q <= s /\ (q + 1) * (q + 1) > s
    IN  [kind |-> "float", floor |-> r, exact |-> r * r = s]

\* line 261 for one row; arithmetic with NaN is NaN
DistanceFromPoint(X, Y, x, y) ==
    IF x.kind = "nan" \/ y.kind = "nan" THEN NaN
    ELSE Sqrt((X - x.n) * (X - x.n) + (Y - y.n) * (Y - y.n))

\* line 263: dist < distance_m for an int distance_m; a comparison with NaN
\* is False, and r + f < m with 0 <= f < 1 exactly when r < m
LessThan(dist, distance_m) ==
    /\ dist.kind = "float"
    /\ dist.floor < distance_m

\* line 261: int - str raises TypeError
ArithmeticRaises(df) ==
    \E k \in 1..Len(df) :
        \/ StrGet(df[k].Coordinates, 0).kind = "str"
        \/ StrGet(df[k].Coordinates, 1).kind = "str"

\* lines 254-262: the row with its X, Y and 'distance from point' columns
WithDistance(row, X, Y) ==
    [UUID |-> row.UUID, Name |-> row.Name,
     EnvironmentType |-> row.EnvironmentType, Coordinates |-> row.Coordinates,
     Address |-> row.Address, WebLink |-> row.WebLink,
     ImageNames |-> row.ImageNames,
     X |-> StrGet(row.Coordinates, 0), Y |-> StrGet(row.Coordinates, 1),
     distance |-> DistanceFromPoint(X, Y, StrGet(row.Coordinates, 0),
                                    StrGet(row.Coordinates, 1))]

RECURSIVE MapRows(_, _, _)
MapRows(df, X, Y) ==
    IF df = <<>> THEN <<>>
    ELSE <<WithDistance(Head(df), X, Y)>> \o MapRows(Tail(df), X, Y)

RECURSIVE Within(_, _)
\* line 263: the boolean mask keeps the rows in their order
Within(df, distance_m) ==
    IF df = <<>> THEN <<>>
    ELSE (IF LessThan(Head(df).distance, distance_m) THEN <<Head(df)>> ELSE <<>>)
         \o Within(Tail(df), distance_m)

QueryPoints == {<<0, 0>>, <<1, 0>>}
Distances == {0, 4, 5}

\* lines 249-253: read_pickle raises when the file is absent
ReadRaises(file) == file = <<>>

\* lines 249-266
FindSitesByDistance ==
    /\ pc = "idle"
    /\ \E p \in QueryPoints, distance_m \in Distances :
          LET args == <<[X |-> p[1], Y |-> p[2], distance_m |-> distance_m]>>
          IN  result' =
                 IF ReadRaises(pkl)
                 THEN Outcome("find_sites_by_distance", "message", <<>>, args)
                 ELSE IF ArithmeticRaises(pkl[1])
                 THEN Outcome("find_sites_by_distance", "raised", <<>>, args)
                 ELSE Outcome("find_sites_by_distance", "returned",
                              <<Within(MapRows(pkl[1], p[1], p[2]), distance_m)>>,
                              args)
    /\ UNCHANGED <<pc, pkl, prompt, api_df, i, site_info_dict, site_info_df,
                   extracted, json_dir, dlvars, imgvars>>

\* -------------------------------------------------------------- pkl_to_json
\* lines 348-350: one file per row, named after the row's Name
JsonFiles(df) == {df[k].Name[1] : k \in 1..Len(df)}

\* lines 342-351: the directory is made before the snapshot is read, and
\* nothing catches read_pickle's FileNotFoundError
PklToJson ==
    /\ pc = "idle"
    /\ LET dir == IF json_dir = <<>> THEN {} ELSE json_dir[1]
       IN  IF pkl = <<>>
           THEN /\ json_dir' = <<dir>>
                /\ result' = Outcome("pkl_to_json", "raised", <<>>, <<>>)
           ELSE /\ json_dir' = <<dir \cup JsonFiles(pkl[1])>>
                /\ result' = Outcome("pkl_to_json", "returned", <<>>, <<>>)
    /\ UNCHANGED <<pc, pkl, prompt, api_df, i, site_info_dict, site_info_df,
                   extracted, dlvars, imgvars>>

InitCatalog ==
    /\ pkl = <<>>
    /\ prompt = "not_asked"
    /\ api_df = <<>>
    /\ i = 0
    /\ site_info_dict = EmptyDict
    /\ site_info_df = <<>>
    /\ extracted = <<>>
    /\ result = Outcome("none", "none", <<>>, <<>>)
    /\ json_dir = <<>>

NextCatalog ==
    \/ StartAllSites
    \/ CrawlRecord
    \/ FinishCrawl
    \/ FindSitesByDistance
    \/ PklToJson

\* --------------------------------------------------------- _retrieve_images
\* the site whose photos single_site_info(site_name, download_imgs=True) takes
ImageSite == <<"S", 1>>

\* the carousels a detail page may hold: n photos, each with its own src
Carousels == {[k \in 1..n |-> <<"src", k>>] : n \in 0..MaxPhotos}

\* the image_files directories a call may find: any of the site's files,
\* left by earlier runs
ImageDirs ==
    {[f \in S |-> <<"old">>] :
        S \in SUBSET {ImageName(ImageSite, k) : k \in 0..(MaxPhotos - 1)}}

\* line 147
ImageExists(dir, filename) == filename \in DOMAIN dir

\* lines 147-152: filenumber moves on only in the branch that downloads
NextFileNumber(n, existed) == IF existed THEN n ELSE n + 1

ImageOutcome(how, count, names) ==
    [outcome |-> how, count |-> count, names |-> names]

\* lines 138-144
StartRetrieveImages ==
    /\ pc = "idle"
    /\ \E photos \in Carousels : all_photos' = photos
    /\ photo_no' = 0
    /\ filenumber' = 0
    /\ fetched' = <<>>
    /\ images_before' = image_files
    /\ img_report' = <<>>
    /\ pc' = "images"
    /\ UNCHANGED <<image_files, dlvars, catvars>>

\* lines 145-152: one iteration of the loop
RetrieveImage ==
    /\ pc = "images"
    /\ photo_no < Len(all_photos)
    /\ LET filename == ImageName(ImageSite, filenumber)
           existed  == ImageExists(image_files, filename)
       IN  /\ image_files' = IF existed THEN image_files
                             ELSE (filename :> all_photos[photo_no + 1]) @@ image_files
           /\ fetched' = IF existed THEN fetched ELSE Append(fetched, filename)
           /\ filenumber' = NextFileNumber(filenumber, existed)
    /\ photo_no' = photo_no + 1
    /\ UNCHANGED <<pc, all_photos, images_before, img_report, dlvars, catvars>>

\* line 151: urlretrieve raises and nothing catches it
ImageFetchFails ==
    /\ pc = "images"
    /\ photo_no < Len(all_photos)
    /\ ~ImageExists(image_files, ImageName(ImageSite, filenumber))
    /\ img_report' = <<ImageOutcome("raised", filenumber, <<>>)>>
    /\ pc' = "idle"
    /\ UNCHANGED <<image_files, all_photos, photo_no, filenumber, fetched,
                   images_before, dlvars, catvars>>

\* lines 153-154, and line 103 of the caller
ReturnImages ==
    /\ pc = "images"
    /\ photo_no = Len(all_photos)
    /\ img_report' = <<ImageOutcome("returned", filenumber,
                                    CheckForImageDownload(ImageSite))>>
    /\ pc' = "idle"
    /\ UNCHANGED <<image_files, all_photos, photo_no, filenumber, fetched,
                   images_before, dlvars, catvars>>

InitImages ==
    /\ all_photos = <<>>
    /\ photo_no = 0
    /\ filenumber = 0
    /\ fetched = <<>>
    /\ img_report = <<>>
    /\ images_before = <<>>

NextImages ==
    \/ StartRetrieveImages
    \/ RetrieveImage
    \/ ImageFetchFails
    \/ ReturnImages

\* image_files does not exist until _retrieve_images makes it
Init == InitDownload /\ InitCatalog /\ InitImages /\ image_files = <<>>

Next == NextDownload \/ NextCatalog \/ NextImages

SpecDownload == Init /\ [][NextDownload]_vars

\* the catalog operations never read monitoring_files: it starts as made
InitFresh == Init /\ files = {}

SpecCatalog == InitFresh /\ [][NextCatalog]_vars

\* image_files as earlier runs left it
InitWithImages ==
    /\ InitDownload /\ files = {}
    /\ InitCatalog
    /\ InitImages
    /\ image_files \in ImageDirs

SpecImages == InitWithImages /\ [][NextImages]_vars

Spec == Init /\ [][Next]_vars

\* ---------------------------------------------------------- catalog: claims
\* a returned row without its X, Y and 'distance from point' columns
BaseRow(r) ==
    [UUID |-> r.UUID, Name |-> r.Name, EnvironmentType |-> r.EnvironmentType,
     Coordinates |-> r.Coordinates, Address |-> r.Address,
     WebLink |-> r.WebLink, ImageNames |-> r.ImageNames]

BaseRows(df) == [k \in 1..Len(df) |-> BaseRow(df[k])]

Resolved(row) == row.Coordinates # <<>> /\ row.Coordinates[1].kind = "xy"

\* sqrt((x-X)^2 + (y-Y)^2) < m, stated on the squares
StrictlyInside(row, X, Y, m) ==
    LET c == row.Coordinates[1]
    IN  m > 0 /\ (c.x - X) * (c.x - X) + (c.y - Y) * (c.y - Y) < m * m

RECURSIVE ExpectedSites(_, _, _, _)
\* the sites with resolved coordinates strictly inside the radius, in order
ExpectedSites(df, X, Y, m) ==
    IF df = <<>> THEN <<>>
    ELSE (IF Resolved(Head(df)) /\ StrictlyInside(Head(df), X, Y, m)
          THEN <<Head(df)>> ELSE <<>>) \o ExpectedSites(Tail(df), X, Y, m)

FoundWithSnapshot == result.op = "find_sites_by_distance" /\ pkl # <<>>

\* C6: for every catalog, point and distance, find_sites_by_distance returns
\* exactly the sites with resolved coordinates strictly closer than
\* distance_m, in catalog order; a site exactly distance_m away is absent.
C6_ExactlyTheSitesInside ==
    FoundWithSnapshot =>
        /\ result.outcome = "returned"
        /\ BaseRows(result.value[1]) =
              ExpectedSites(pkl[1], result.args[1].X, result.args[1].Y,
                            result.args[1].distance_m)

\* C7: on a catalog holding sites with unresolved coordinates (raw text, or
\* missing) find_sites_by_distance completes without raising and returns none
\* of those sites.
C7_UnresolvedAreExcludedNotErrored ==
    (FoundWithSnapshot /\ \E k \in 1..Len(pkl[1]) : ~Resolved(pkl[1][k])) =>
        /\ result.outcome = "returned"
        /\ \A k \in 1..Len(result.value[1]) : Resolved(result.value[1][k])

\* Whenever find_sites_by_distance returns a dataframe, it is the expected one.
ReturnedSitesAreTheExpected ==
    (FoundWithSnapshot /\ result.outcome = "returned") =>
        BaseRows(result.value[1]) =
            ExpectedSites(pkl[1], result.args[1].X, result.args[1].Y,
                          result.args[1].distance_m)

\* C8 as stated: while a snapshot exists, a crawl runs only after the user
\* confirmed the overwrite.
C8_CrawlOnlyIfConfirmed ==
    (pc = "crawl" /\ pkl # <<>>) => prompt = "confirmed"

\* C8 as amended: an all_sites_info whose prompt was answered with a decline
\* leaves the snapshot as it is and performs no crawl.
C8_DeclineKeepsSnapshot ==
    [][prompt' = "declined" => (pkl' = pkl /\ pkl # <<>> /\ pc' = "idle")]_vars

C8_Witness ==
    /\ prompt = "declined"
    /\ result = Outcome("all_sites_info", "returned", <<>>, <<>>)
    /\ pkl # <<>>

\* C9: with no All_Sites_Outputs.pkl, find_sites_by_distance and pkl_to_json
\* report a message, return nothing, raise nothing and write no file.
C9_MissingSnapshotIsAMessage ==
    (pkl = <<>> /\ result.op \in {"find_sites_by_distance", "pkl_to_json"}) =>
        /\ result.outcome = "message"
        /\ result.value = <<>>
        /\ json_dir \in {<<>>, <<{}>>}

\* C10: the saved catalog holds exactly the records whose extraction
\* succeeded, in feed order; a failing record contributes no row.
C10_FailingRecordsAreSkipped ==
    (result.op = "all_sites_info" /\ result.outcome = "saved") =>
        /\ Len(pkl[1]) = Len(extracted)
        /\ \A k \in 1..Len(extracted) :
              pkl[1][k].Name = <<api_df[extracted[k]].site_name>>

\* the feed rows a catalog row's name belongs to
FeedRowsNamed(name) == {j \in 1..Len(api_df) : <<api_df[j].site_name>> = name}

\* the attributes of a catalog row are absent or were extracted for feed row j
ExtractedFor(row, j) ==
    /\ row.EnvironmentType \in {<<>>, <<<<"env", api_df[j].site_name>>>>}
    /\ row.Address \in {<<>>, <<<<"addr", api_df[j].site_name>>>>}
    /\ row.WebLink \in {<<>>, <<api_df[j].link>>}

\* C11: in the saved catalog every row's Environment Type, Address and Web
\* Link were extracted for the feed record whose Name is in that row.
C11_RowsAreConsistent ==
    (result.op = "all_sites_info" /\ result.outcome = "saved") =>
        \A k \in 1..Len(pkl[1]) :
            \E j \in FeedRowsNamed(pkl[1][k].Name) : ExtractedFor(pkl[1][k], j)

\* ------------------------------------------------- _retrieve_images: claims
ImagesReturned ==
    pc = "idle" /\ img_report # <<>> /\ img_report[1].outcome = "returned"

\* C12: when _retrieve_images returns for a carousel of n photos, the files
\* '<site_name>0.jpg' .. '<site_name>(n-1).jpg' all exist, no file that was
\* there before the call was replaced, and the reported number is the number
\* of files fetched in the call.
C12_AllPhotosOnDisk ==
    ImagesReturned =>
        /\ \A k \in 0..(Len(all_photos) - 1) :
              ImageName(ImageSite, k) \in DOMAIN image_files
        /\ \A f \in DOMAIN images_before :
              f \in DOMAIN image_files /\ image_files[f] = images_before[f]
        /\ img_report[1].count = Len(fetched)

\* What does hold: nothing is replaced and the number reported is the number
\* fetched.
ImagesKeptAndCounted ==
    /\ \A f \in DOMAIN images_before :
          f \in DOMAIN image_files /\ image_files[f] = images_before[f]
    /\ filenumber = Len(fetched)
    /\ ImagesReturned => img_report[1].count = Len(fetched)
====
